---- MODULE Spec2Model ----
(***************************************************************************)
(* A model of generate_icons.py: the font-size table, the icon renderer,   *)
(* the catalog processor, the batch driver, the alias checker and main's   *)
(* dispatch, over a file system of icon files, directories, a catalog file *)
(* and a templates directory.                                              *)
(*                                                                         *)
(* A Python str is a sequence of one-character strings, so that lower(),   *)
(* replace(), startswith(), endswith(), len() and format() are computed    *)
(* on characters.  None is the empty sequence << >> and a present value v  *)
(* is << v >>.                                                             *)
(*                                                                         *)
(* The catalog and the template files are readable and well formed (JSON   *)
(* that parses, templates whose replacement fields are color, extension    *)
(* and font_size), and every write succeeds: the runs modelled are the     *)
(* ones that end without an uncaught exception.                            *)
(***************************************************************************)
EXTENDS Integers, Sequences, FiniteSets

VARIABLES
    catalog,    \* the catalog file: the members of its JSON object, in order
    tdir,       \* the templates directory: << >> when absent, else << the set of its file names >>
    dirs,       \* the directories that exist
    files,      \* the icon files: path |-> content
    pc,         \* where the process is
    args,       \* the parsed command line of the running invocation
    frame,      \* generate_icons_from_json: its locals and loop position
    todo,       \* generate_all_templates: the template files still to process
    calls,      \* the generate_icon calls of this invocation, in order
    procs,      \* the generate_icons_from_json runs of this invocation, in order
    run,        \* the number of invocations started
    snap,       \* what this invocation found on its start: << >> or << [files, dirs, args, catalog] >>
    chk,        \* check_aliases: its locals and loop position
    out,        \* check_aliases: the warnings printed, in order
    prompts,    \* check_aliases: the answers read from the operator, in order
    saved,      \* check_aliases: the catalogs it wrote to the catalog file, in order
    font        \* get_font_size on its own: [length, custom, result]

vars == <<catalog, tdir, dirs, files, pc, args, frame, todo, calls, procs, run,
          snap, chk, out, prompts, saved, font>>

genVars == <<dirs, files, args, frame, todo, calls, procs, run, snap>>
chkVars == <<chk, out, prompts, saved>>

----------------------------------------------------------------------------
(* Bounds *)

\* the longest extension name on which get_font_size is applied on its own
MaxLen == 11
\* the largest font-size override passed to get_font_size on its own
MaxSize == 11
\* the most members the catalog file holds
MaxEntries == 2
\* the most invocations of the program in a row
MaxRuns == 2

----------------------------------------------------------------------------
(* Python strings *)

None == << >>
Some(v) == << v >>

UpperCase == <<"A","B","C","D","E","F","G","H","I","J","K","L","M",
               "N","O","P","Q","R","S","T","U","V","W","X","Y","Z">>
LowerCase == <<"a","b","c","d","e","f","g","h","i","j","k","l","m",
               "n","o","p","q","r","s","t","u","v","w","x","y","z">>

\* str.lower() on one character
LowerChar(c) ==
    IF \E k \in DOMAIN UpperCase : UpperCase[k] = c
    THEN LowerCase[CHOOSE k \in DOMAIN UpperCase : UpperCase[k] = c]
    ELSE c

\* str.lower()
Lower(s) == [k \in DOMAIN s |-> LowerChar(s[k])]

\* str.startswith(p), str.endswith(p)
StartsWith(s, p) == Len(p) <= Len(s) /\ SubSeq(s, 1, Len(p)) = p
EndsWith(s, p) == Len(p) <= Len(s) /\ SubSeq(s, Len(s) - Len(p) + 1, Len(s)) = p

\* str.replace(old, new): every non-overlapping occurrence, left to right
RECURSIVE Replace(_, _, _)
Replace(s, old, new) ==
    IF Len(s) < Len(old) THEN s
    ELSE IF SubSeq(s, 1, Len(old)) = old
         THEN new \o Replace(SubSeq(s, Len(old) + 1, Len(s)), old, new)
         ELSE <<Head(s)>> \o Replace(Tail(s), old, new)

Digits == <<"0","1","2","3","4","5","6","7","8","9">>

\* str(n) of a natural number, as format() writes {font_size}
RECURSIVE IntToStr(_)
IntToStr(n) ==
    IF n < 10 THEN <<Digits[n + 1]>>
    ELSE IntToStr(n \div 10) \o <<Digits[(n % 10) + 1]>>

\* os.path.join(a, b) for a relative b
Join(a, b) ==
    IF a = << >> THEN b
    ELSE IF a[Len(a)] = "/" THEN a \o b
    ELSE a \o <<"/">> \o b

----------------------------------------------------------------------------
(* get_font_size *)

\* get_font_size with every step of its table one length early
GetFontSizeOffByOne(extension_length, custom_size) ==
    IF custom_size # None THEN custom_size[1]
    ELSE IF extension_length < 3 THEN 10
    ELSE IF extension_length = 3 THEN 9
    ELSE IF extension_length = 4 THEN 8
    ELSE IF extension_length = 5 THEN 7
    ELSE IF extension_length = 6 THEN 6
    ELSE IF extension_length = 7 THEN 5
    ELSE 4

\* get_font_size(extension_length, custom_size=None)
GetFontSize(extension_length, custom_size) ==
    IF custom_size # None THEN custom_size[1]
    ELSE IF extension_length <= 3 THEN 10
    ELSE IF extension_length = 4 THEN 9
    ELSE IF extension_length = 5 THEN 8
    ELSE IF extension_length = 6 THEN 7
    ELSE IF extension_length = 7 THEN 6
    ELSE IF extension_length = 8 THEN 5
    ELSE 4

----------------------------------------------------------------------------
(* The inputs: catalog files, template files, command lines *)

TS == <<"T","S">>
ts == <<"t","s">>
TYPESCRIPT == <<"T","Y","P","E","S","C","R","I","P","T">>

Red == <<"#","F","0","0">>
Blue == <<"#","3","1","7","8","C","6">>

\* A member of the catalog's JSON object: its key and its value.  kind is the
\* value's JSON type: "str" (a bare color), "dict" (a config object, with its
\* keys color, font_size and aliases when present) or "other".
StrEntry(name, color) ==
    [name |-> name, kind |-> "str", color |-> Some(color), font_size |-> None,
     aliases |-> << >>]
DictEntry(name, color, font_size, aliases) ==
    [name |-> name, kind |-> "dict", color |-> color, font_size |-> font_size,
     aliases |-> aliases]
OtherEntry(name) ==
    [name |-> name, kind |-> "other", color |-> None, font_size |-> None,
     aliases |-> << >>]

EntryPool ==
    { DictEntry(TYPESCRIPT, Some(Blue), None, <<TS>>),
      StrEntry(TS, Red),
      DictEntry(TS, Some(Red), Some(12), <<ts, ts>>),
      DictEntry(ts, None, Some(0), <<TS, TYPESCRIPT>>),
      OtherEntry(ts) }

\* the catalog files: up to MaxEntries members, a key possibly repeated
CatalogFiles == UNION { [1..n -> EntryPool] : n \in 0..MaxEntries }

\* json.load of the catalog file into a dict: a repeated key keeps the place
\* of its first member and the value of its last
RECURSIVE JsonLoadFrom(_, _)
JsonLoadFrom(raw, k) ==
    IF k > Len(raw) THEN << >>
    ELSE LET isFirst == \A m \in 1..(k - 1) : raw[m].name # raw[k].name
             last == CHOOSE m \in k..Len(raw) :
                        /\ raw[m].name = raw[k].name
                        /\ \A q \in (m + 1)..Len(raw) : raw[q].name # raw[k].name
         IN (IF isFirst THEN <<raw[last]>> ELSE << >>) \o JsonLoadFrom(raw, k + 1)

JsonLoad(raw) == JsonLoadFrom(raw, 1)

\* json.dump of a dict: one member per key, in the dict's order (the file
\* is held as its members, so the indentation does not show)
JsonDump(data) == data

\* set(data.keys())
Keys(data) == { data[k].name : k \in DOMAIN data }

\* the text of a template: characters and the replacement fields of str.format
PrefixTemplate == <<"t","e","m","p","l","a","t","e","_">>
DotSvg == <<".","s","v","g">>
Icons == <<"i","c","o","n","s">>
Templates == <<"t","e","m","p","l","a","t","e","s">>
Dot == <<".">>
OutDir == <<"o","u","t">>

TemplateA == PrefixTemplate \o <<"a">> \o DotSvg
TemplateB == PrefixTemplate \o <<"b">> \o DotSvg
TemplateTemplateA == PrefixTemplate \o PrefixTemplate \o <<"a">> \o DotSvg
PlainSvg == <<"a">> \o DotSvg
TemplateTxt == PrefixTemplate \o <<"a",".","t","x","t">>

\* every template file holds the text its name stands for
TemplateText(name) ==
    IF name \in {TemplateA, PlainSvg}
    THEN <<"{color}", ":", "{font_size}", ":", "{extension}">>
    ELSE <<"<", "{extension}", " ", "{color}", ">">>

\* the listings of the templates directory
TemplateDirs ==
    { None,
      Some({}),
      Some({PlainSvg, TemplateTxt}),
      Some({TemplateA, TemplateTxt}),
      Some({TemplateA, TemplateB}),
      Some({TemplateA, TemplateTemplateA}) }

\* load_template
LoadTemplate(template_file) ==
    LET cut == { k \in DOMAIN template_file : template_file[k] = "/" }
        base == IF cut = {} THEN template_file
                ELSE SubSeq(template_file,
                            (CHOOSE k \in cut : \A m \in cut : m <= k) + 1,
                            Len(template_file))
    IN TemplateText(base)

----------------------------------------------------------------------------
(* generate_icon *)

\* template_svg.format(color=..., extension=..., font_size=...)
RECURSIVE Format(_, _, _, _)
Format(template_svg, color, extension, font_size) ==
    IF template_svg = << >> THEN << >>
    ELSE LET field == Head(template_svg)
             text == IF field = "{color}" THEN color
                     ELSE IF field = "{extension}" THEN extension
                     ELSE IF field = "{font_size}" THEN IntToStr(font_size)
                     ELSE <<field>>
         IN text \o Format(Tail(template_svg), color, extension, font_size)

\* os.path.exists
Exists(fs, ds, path) == path \in DOMAIN fs \/ path \in ds

\* open(filepath, "w").write(content)
WriteFile(fs, path, content) ==
    [p \in DOMAIN fs \cup {path} |-> IF p = path THEN content ELSE fs[p]]

\* the path without the lower()
IconPathCaseSensitive(extension, output_dir) == Join(output_dir, extension \o DotSvg)

\* filename = f"{extension.lower()}.svg"; filepath = os.path.join(output_dir, filename)
IconPath(extension, output_dir) == Join(output_dir, Lower(extension) \o DotSvg)

\* if font_size is None: font_size = get_font_size(len(extension))
ResolveFontSize(extension_length, font_size) ==
    IF font_size = None THEN GetFontSize(extension_length, None)
    ELSE font_size[1]

\* generate_icon that skips an existing file even when force is set
GenerateIconNeverOverwrites(fs, extension, color, output_dir, template_svg, font_size, force) ==
    LET filepath == IconPath(extension, output_dir)
    IN IF Exists(fs, dirs, filepath)
       THEN [files |-> fs, wrote |-> FALSE]
       ELSE [files |-> WriteFile(fs, filepath,
                          Format(template_svg, color, extension,
                                 ResolveFontSize(Len(extension), font_size))),
             wrote |-> TRUE]

\* generate_icon without the test for an existing file
GenerateIconAlwaysWrites(fs, extension, color, output_dir, template_svg, font_size, force) ==
    [files |-> WriteFile(fs, IconPath(extension, output_dir),
                  Format(template_svg, color, extension,
                         ResolveFontSize(Len(extension), font_size))),
     wrote |-> TRUE]

\* generate_icon on the icon files fs: the files it leaves, and whether it wrote
GenerateIcon(fs, extension, color, output_dir, template_svg, font_size, force) ==
    LET filepath == IconPath(extension, output_dir)
    IN IF Exists(fs, dirs, filepath) /\ ~force
       THEN [files |-> fs, wrote |-> FALSE]
       ELSE LET size == ResolveFontSize(Len(extension), font_size)
                svg_content == Format(template_svg, color, extension, size)
            IN [files |-> WriteFile(fs, filepath, svg_content), wrote |-> TRUE]

\* the record of one generate_icon call
\* (i, j: the loop position of generate_icons_from_json that made the call)
Call(extension, color, output_dir, template_svg, font_size, force, wrote, i, j) ==
    [extension |-> extension, color |-> color, output_dir |-> output_dir,
     template_svg |-> template_svg, font_size |-> font_size, force |-> force,
     wrote |-> wrote, i |-> i, j |-> j]

----------------------------------------------------------------------------
(* generate_icons_from_json *)

\* os.makedirs(path): the directory and every missing parent
Ancestors(path) ==
    { SubSeq(path, 1, k - 1) : k \in { m \in 2..Len(path) : path[m] = "/" } }
        \cup {path}

\* if not os.path.exists(output_dir): os.makedirs(output_dir)
EnsureDir(fs, ds, output_dir) ==
    IF Exists(fs, ds, output_dir) THEN ds ELSE ds \cup Ancestors(output_dir)

\* the locals of generate_icons_from_json on entry to its loop: i is the
\* catalog entry the loop is at, j = 0 before its primary icon and j = k
\* before its k-th alias
EnterProcessor(output_dir, template_file, force) ==
    [output_dir |-> output_dir, template_svg |-> LoadTemplate(template_file),
     force |-> force, data |-> JsonLoad(catalog), i |-> 1, j |-> 0]

NoFrame ==
    [output_dir |-> Dot, template_svg |-> << >>, force |-> FALSE,
     data |-> << >>, i |-> 1, j |-> 0]

InLoop == pc = "gen" /\ frame.i <= Len(frame.data)

Entry == frame.data[frame.i]

\* one generate_icon call of the loop, and the loop's next position
Render(extension, color, font_size, i, j) ==
    LET r == GenerateIcon(files, extension, color, frame.output_dir,
                          frame.template_svg, font_size, frame.force)
    IN /\ files' = r.files
       /\ calls' = Append(calls, Call(extension, color, frame.output_dir,
                                      frame.template_svg, font_size,
                                      frame.force, r.wrote, frame.i, frame.j))
       /\ frame' = [frame EXCEPT !.i = i, !.j = j]
       /\ UNCHANGED <<catalog, tdir, dirs, pc, args, todo, procs, run, snap,
                      chkVars, font>>

\* isinstance(config, str): one icon, no font size passed
RenderString ==
    /\ InLoop
    /\ Entry.kind = "str"
    /\ Render(Entry.name, Entry.color[1], None, frame.i + 1, 0)

\* config.get("color", "#000000")
DefaultColor == <<"#","0","0","0","0","0","0">>
\* config.get("color") without the default
ColorOfNoDefault(config) == IF config.color = None THEN << >> ELSE config.color[1]
ColorOf(config) == IF config.color = None THEN DefaultColor ELSE config.color[1]

\* isinstance(config, dict): the primary icon
RenderPrimary ==
    /\ InLoop
    /\ Entry.kind = "dict"
    /\ frame.j = 0
    /\ IF Entry.aliases = << >>
       THEN Render(Entry.name, ColorOf(Entry), Entry.font_size, frame.i + 1, 0)
       ELSE Render(Entry.name, ColorOf(Entry), Entry.font_size, frame.i, 1)

\* the loop over the aliases, taken from the end of the list
RenderAliasReversed ==
    /\ InLoop
    /\ Entry.kind = "dict"
    /\ frame.j >= 1
    /\ LET alias == Entry.aliases[Len(Entry.aliases) + 1 - frame.j]
       IN IF frame.j = Len(Entry.aliases)
          THEN Render(alias, ColorOf(Entry), Entry.font_size, frame.i + 1, 0)
          ELSE Render(alias, ColorOf(Entry), Entry.font_size, frame.i, frame.j + 1)

\* for alias in aliases: one icon per alias
RenderAlias ==
    /\ InLoop
    /\ Entry.kind = "dict"
    /\ frame.j >= 1
    /\ IF frame.j = Len(Entry.aliases)
       THEN Render(Entry.aliases[frame.j], ColorOf(Entry), Entry.font_size,
                   frame.i + 1, 0)
       ELSE Render(Entry.aliases[frame.j], ColorOf(Entry), Entry.font_size,
                   frame.i, frame.j + 1)

\* a config that is neither a str nor a dict: nothing is generated
SkipEntry ==
    /\ InLoop
    /\ Entry.kind \notin {"str", "dict"}
    /\ frame' = [frame EXCEPT !.i = frame.i + 1, !.j = 0]
    /\ UNCHANGED <<catalog, tdir, dirs, files, pc, args, todo, calls, procs,
                   run, snap, chkVars, font>>

\* the loop is over: back to generate_all_templates, or to main and the exit
ProcessorReturn ==
    /\ pc = "gen"
    /\ frame.i > Len(frame.data)
    /\ pc' = IF args.template = None THEN "batch" ELSE "idle"
    /\ UNCHANGED <<catalog, tdir, dirs, files, args, frame, todo, calls, procs,
                   run, snap, chkVars, font>>

----------------------------------------------------------------------------
(* generate_all_templates and main *)

\* the start of an invocation: its command line, and the record of what it
\* found (the files, the directories, the catalog, the previous command line)
Invoke(a) ==
    /\ pc = "idle"
    /\ run < MaxRuns
    /\ run' = run + 1
    /\ args' = a
    /\ calls' = << >>
    /\ snap' = Some([files |-> files, dirs |-> dirs, args |-> args,
                     catalog |-> catalog])

\* main with --template: generate_icons_from_json(json_file, output_dir, template, force)
MainTemplate ==
    \E template \in {TemplateA, TemplateB}, output_dir \in {OutDir},
       force \in BOOLEAN :
        /\ Invoke([check |-> FALSE, template |-> Some(template),
                   output_dir |-> output_dir, force |-> force])
        /\ frame' = EnterProcessor(output_dir, template, force)
        /\ dirs' = EnsureDir(files, dirs, output_dir)
        /\ procs' = <<[template_file |-> template, output_dir |-> output_dir]>>
        /\ pc' = "gen"
        /\ UNCHANGED <<catalog, tdir, files, todo, chkVars, font>>

\* f.startswith("template_") and f.endswith(".svg")
IsTemplateFile(f) == StartsWith(f, PrefixTemplate) /\ EndsWith(f, DotSvg)

\* template_file.replace("template_", "").replace(".svg", "")
TemplateName(template_file) ==
    Replace(Replace(template_file, PrefixTemplate, << >>), DotSvg, << >>)

\* main without --template: generate_all_templates(json_file, force=force),
\* up to its loop over the template files
MainBatch ==
    \E force \in BOOLEAN :
        /\ Invoke([check |-> FALSE, template |-> None, output_dir |-> Dot,
                   force |-> force])
        /\ IF tdir = None
           THEN pc' = "idle" /\ todo' = {}
           ELSE LET template_files == { f \in tdir[1] : IsTemplateFile(f) }
                IN IF template_files = {}
                   THEN pc' = "idle" /\ todo' = {}
                   ELSE pc' = "batch" /\ todo' = template_files
        /\ procs' = << >>
        /\ UNCHANGED <<catalog, tdir, dirs, files, frame, chkVars, font>>

\* for template_file in template_files (in the order os.listdir gave, which
\* is any order): generate_icons_from_json into icons/<template_name>
BatchNext ==
    /\ pc = "batch"
    /\ \E template_file \in todo :
        LET template_name == TemplateName(template_file)
            output_dir == Join(Icons, template_name)
            template_path == Join(Templates, template_file)
        IN /\ frame' = EnterProcessor(output_dir, template_path, args.force)
           /\ dirs' = EnsureDir(files, dirs, output_dir)
           /\ procs' = Append(procs, [template_file |-> template_file,
                                      output_dir |-> output_dir])
           /\ todo' = todo \ {template_file}
           /\ pc' = "gen"
    /\ UNCHANGED <<catalog, tdir, files, args, calls, run, snap, chkVars, font>>

\* the loop over the template files is over
BatchReturn ==
    /\ pc = "batch"
    /\ todo = {}
    /\ pc' = "idle"
    /\ UNCHANGED <<catalog, tdir, dirs, files, args, frame, todo, calls, procs,
                   run, snap, chkVars, font>>

----------------------------------------------------------------------------
(* check_aliases *)

\* main with --check: check_aliases(json_file), up to its loop over the entries
MainCheck ==
    /\ Invoke([check |-> TRUE, template |-> None, output_dir |-> Dot,
               force |-> FALSE])
    /\ LET data == JsonLoad(catalog)
       IN chk' = [data |-> data, main_extensions |-> Keys(data),
                  all_aliases |-> {}, aliases_map |-> << >>, i |-> 1, j |-> 1]
    /\ procs' = << >>
    /\ out' = << >>
    /\ prompts' = << >>
    /\ saved' = << >>
    /\ pc' = "scan"
    /\ UNCHANGED <<catalog, tdir, dirs, files, frame, todo, font>>

Scanned == chk.data[chk.i]

\* the scan registering an alias to every entry that lists it, the last one staying
ScanAliasLastOwner ==
    /\ pc = "scan"
    /\ chk.i <= Len(chk.data)
    /\ Scanned.kind = "dict"
    /\ chk.j <= Len(Scanned.aliases)
    /\ LET alias == Scanned.aliases[chk.j]
           extension == Scanned.name
           collision == IF alias \in chk.main_extensions
                        THEN <<[warning |-> "main extension", alias |-> alias,
                                extension |-> extension, owner |-> extension]>>
                        ELSE << >>
           duplicate == IF alias \in chk.all_aliases
                        THEN <<[warning |-> "alias", alias |-> alias,
                                extension |-> extension,
                                owner |-> chk.aliases_map[alias]]>>
                        ELSE << >>
       IN /\ out' = out \o collision \o duplicate
          /\ chk' = [chk EXCEPT
                        !.all_aliases = chk.all_aliases \cup {alias},
                        !.aliases_map =
                            [a \in chk.all_aliases \cup {alias} |->
                                IF a = alias THEN extension
                                ELSE chk.aliases_map[a]],
                        !.j = chk.j + 1]
    /\ UNCHANGED <<catalog, tdir, pc, genVars, prompts, saved, font>>

\* for alias in aliases_list: the two warnings, and the registration
ScanAlias ==
    /\ pc = "scan"
    /\ chk.i <= Len(chk.data)
    /\ Scanned.kind = "dict"
    /\ chk.j <= Len(Scanned.aliases)
    /\ LET alias == Scanned.aliases[chk.j]
           extension == Scanned.name
           collision == IF alias \in chk.main_extensions
                        THEN <<[warning |-> "main extension", alias |-> alias,
                                extension |-> extension, owner |-> extension]>>
                        ELSE << >>
           seen == alias \in chk.all_aliases
           duplicate == IF seen
                        THEN <<[warning |-> "alias", alias |-> alias,
                                extension |-> extension,
                                owner |-> chk.aliases_map[alias]]>>
                        ELSE << >>
       IN /\ out' = out \o collision \o duplicate
          /\ chk' = IF seen
                    THEN [chk EXCEPT !.j = chk.j + 1]
                    ELSE [chk EXCEPT
                            !.all_aliases = chk.all_aliases \cup {alias},
                            !.aliases_map =
                                [a \in chk.all_aliases \cup {alias} |->
                                    IF a = alias THEN extension
                                    ELSE chk.aliases_map[a]],
                            !.j = chk.j + 1]
    /\ UNCHANGED <<catalog, tdir, pc, genVars, prompts, saved, font>>

\* the entry has no (more) aliases, or its config is not a dict: the next entry
ScanNextEntry ==
    /\ pc = "scan"
    /\ chk.i <= Len(chk.data)
    /\ Scanned.kind # "dict" \/ chk.j > Len(Scanned.aliases)
    /\ chk' = [chk EXCEPT !.i = chk.i + 1, !.j = 1]
    /\ UNCHANGED <<catalog, tdir, pc, genVars, out, prompts, saved, font>>

\* main_extensions.intersection(all_aliases)
ExtensionsInAliases == chk.main_extensions \cap chk.all_aliases

\* the scan is over: the listing, then the prompt when the intersection is not empty
ScanDone ==
    /\ pc = "scan"
    /\ chk.i > Len(chk.data)
    /\ pc' = IF ExtensionsInAliases # {} THEN "prompt" ELSE "idle"
    /\ UNCHANGED <<catalog, tdir, genVars, chkVars, font>>

\* str.strip(): leading and trailing whitespace removed
RECURSIVE StripLeft(_)
StripLeft(s) ==
    IF s # << >> /\ Head(s) \in {" ", "\t"} THEN StripLeft(Tail(s)) ELSE s
RECURSIVE StripRight(_)
StripRight(s) ==
    IF s # << >> /\ s[Len(s)] \in {" ", "\t"}
    THEN StripRight(SubSeq(s, 1, Len(s) - 1)) ELSE s
Strip(s) == StripRight(StripLeft(s))

Yes == <<"y","e","s">>

\* what the operator may type at the prompt
Answers ==
    { Yes, <<" ","Y","e","s"," ">>, <<"Y","E","S">>,
      <<"n","o">>, <<"y">>, << >>, <<"y","e","s","!">> }

\* the removal keeping the entries it should delete, and only them
RemoveExtensionsInverted(data, extensions) ==
    SelectSeq(data, LAMBDA e : e.name \in extensions)

\* the removal deleting nothing
RemoveExtensionsNoop(data, extensions) == data

\* for extension in extensions_in_aliases: if extension in data: del data[extension]
RemoveExtensions(data, extensions) ==
    SelectSeq(data, LAMBDA e : e.name \notin extensions)

\* input(...).strip().lower(), then the removal and json.dump on "yes"
Respond ==
    /\ pc = "prompt"
    /\ \E answer \in Answers :
        LET response == Lower(Strip(answer))
            data == RemoveExtensions(chk.data, ExtensionsInAliases)
        IN /\ prompts' = Append(prompts, answer)
           /\ IF response = Yes
              THEN /\ chk' = [chk EXCEPT !.data = data]
                   /\ catalog' = JsonDump(data)
                   /\ saved' = Append(saved, JsonDump(data))
              ELSE UNCHANGED <<chk, catalog, saved>>
    /\ pc' = "idle"
    /\ UNCHANGED <<tdir, genVars, out, font>>

----------------------------------------------------------------------------
(* get_font_size and generate_icon's use of it, on their own *)

\* get_font_size(extension_length, custom_size)
ApplyGetFontSize ==
    /\ font.via = "none"
    /\ font' = [font EXCEPT !.via = "get_font_size",
                            !.result = Some(GetFontSize(font.length, font.custom))]
    /\ UNCHANGED <<catalog, tdir, pc, genVars, chkVars>>

\* generate_icon(..., font_size=custom) resolving its font size
ApplyResolveFontSize ==
    /\ font.via = "none"
    /\ font' = [font EXCEPT !.via = "generate_icon",
                            !.result = Some(ResolveFontSize(font.length, font.custom))]
    /\ UNCHANGED <<catalog, tdir, pc, genVars, chkVars>>

NoArgs == [check |-> FALSE, template |-> None, output_dir |-> Dot, force |-> FALSE]
NoCheck == [data |-> << >>, main_extensions |-> {}, all_aliases |-> {},
            aliases_map |-> << >>, i |-> 1, j |-> 1]
NoFont == [length |-> 0, custom |-> None, via |-> "none", result |-> None]

\* no invocation has run yet: no icon file, the working directory only
Start ==
    /\ dirs = {Dot}
    /\ files = << >>
    /\ pc = "idle"
    /\ args = NoArgs
    /\ frame = NoFrame
    /\ todo = {}
    /\ calls = << >>
    /\ procs = << >>
    /\ run = 0
    /\ snap = None
    /\ chk = NoCheck
    /\ out = << >>
    /\ prompts = << >>
    /\ saved = << >>

Init ==
    /\ catalog \in CatalogFiles
    /\ tdir = None
    /\ font = NoFont
    /\ Start

Next ==
    \/ MainTemplate
    \/ RenderString
    \/ RenderPrimary
    \/ RenderAlias
    \/ SkipEntry
    \/ ProcessorReturn

\* the program run with --template, time after time
Spec == Init /\ [][Next]_vars

InitBatch ==
    /\ catalog \in CatalogFiles
    /\ tdir \in TemplateDirs
    /\ font = NoFont
    /\ Start

NextBatch ==
    \/ MainBatch
    \/ BatchNext
    \/ BatchReturn
    \/ RenderString
    \/ RenderPrimary
    \/ RenderAlias
    \/ SkipEntry
    \/ ProcessorReturn

\* the program run without --template and without --check, time after time
SpecBatch == InitBatch /\ [][NextBatch]_vars

InitCheck ==
    /\ catalog \in CatalogFiles
    /\ tdir = None
    /\ font = NoFont
    /\ Start

NextCheck ==
    \/ MainCheck
    \/ ScanAlias
    \/ ScanNextEntry
    \/ ScanDone
    \/ Respond

\* the program run with --check, time after time
SpecCheck == InitCheck /\ [][NextCheck]_vars

InitFont ==
    /\ catalog = << >>
    /\ tdir = None
    /\ font \in [length : 0..MaxLen,
                 custom : {None} \cup { Some(n) : n \in 0..MaxSize },
                 via : {"none"}, result : {None}]
    /\ Start

NextFont == ApplyGetFontSize \/ ApplyResolveFontSize

\* get_font_size and generate_icon's font-size resolution, applied once
SpecFont == InitFont /\ [][NextFont]_vars

----------------------------------------------------------------------------
(* The claims *)

\* the step table of the font sizes: lengths 1..8, and 4 from 9 on
StepTable == <<10, 10, 10, 9, 8, 7, 6, 5>>
TableSize(length) == IF length >= 9 THEN 4 ELSE StepTable[length]

\* C1: get_font_size, called directly or by generate_icon, returns an override
\* unchanged whatever the length (0 included), and without an override returns
\* 10 for lengths 1..3, 9 for 4, 8 for 5, 7 for 6, 6 for 7, 5 for 8 and 4 from 9 on.
C1_FontSizeTable ==
    font.result # None =>
        IF font.custom # None
        THEN font.result = font.custom
        ELSE font.length >= 1 => font.result = Some(TableSize(font.length))

C1_Witness ==
    /\ font.via = "get_font_size"
    /\ font.custom = None
    /\ font.length >= 9
    /\ font.result = Some(4)

\* the font size a call renders with: the one passed, else the table's for
\* the length of the name
SizeOf(call) ==
    IF call.font_size # None THEN call.font_size[1]
    ELSE TableSize(Len(call.extension))

\* the path of the file of a call: <output_dir>/<lowercase(extension)>.svg
PathOf(call) == call.output_dir \o <<"/">> \o Lower(call.extension) \o DotSvg

\* the template rendered with the color, label and font size of a call
Rendered(call) ==
    Format(call.template_svg, call.color, call.extension, SizeOf(call))

\* C2: every generate_icon call whose file exists, made without the overwrite
\* flag, leaves every file as it was; every other call leaves its file holding
\* the template rendered with its color, its label and its resolved font size,
\* and leaves the other files as they were.
C2_Renderer ==
    [][ Len(calls') = Len(calls) + 1 =>
          LET call == calls'[Len(calls')]
              path == PathOf(call)
          IN IF (path \in DOMAIN files \/ path \in dirs) /\ ~call.force
             THEN files' = files
             ELSE /\ DOMAIN files' = DOMAIN files \cup {path}
                  /\ files'[path] = Rendered(call)
                  /\ \A q \in DOMAIN files \ {path} : files'[q] = files[q] ]_vars

\* a call skipped a file that a run with another template had written
C2_Witness ==
    /\ run >= 2
    /\ snap[1].args.template # args.template
    /\ \E k \in DOMAIN calls :
          /\ ~calls[k].wrote
          /\ files[PathOf(calls[k])] # Rendered(calls[k])

\* the invocation that ended is the generation the one before it was, without --force
SameGenerationAgain ==
    /\ pc = "idle"
    /\ run >= 2
    /\ ~args.check /\ ~snap[1].args.check
    /\ ~args.force
    /\ args.template = snap[1].args.template
    /\ args.output_dir = snap[1].args.output_dir
    /\ catalog = snap[1].catalog

\* C3: a generation run that follows a complete run of the same generation
\* and has no --force writes no file, and leaves the files, their contents
\* and the directories as the first run left them.
C3_Idempotent ==
    SameGenerationAgain =>
        /\ \A k \in DOMAIN calls : ~calls[k].wrote
        /\ files = snap[1].files
        /\ dirs = snap[1].dirs

\* the second run of a catalog with names that differ in case only
C3_Witness ==
    /\ SameGenerationAgain
    /\ \E k, m \in DOMAIN calls :
          /\ calls[k].extension # calls[m].extension
          /\ Lower(calls[k].extension) = Lower(calls[m].extension)

\* the names to render, in catalog order: a primary, then its aliases
RECURSIVE NamesInOrder(_)
NamesInOrder(data) ==
    IF data = << >> THEN << >>
    ELSE LET e == Head(data)
             own == IF e.kind = "str" THEN <<e.name>>
                    ELSE IF e.kind = "dict" THEN <<e.name>> \o e.aliases
                    ELSE << >>
         IN own \o NamesInOrder(Tail(data))

CalledNames == [k \in DOMAIN calls |-> calls[k].extension]

\* C4: the generate_icon calls of generate_icons_from_json are, in order, the
\* catalog's names in insertion order, each object entry's primary followed at
\* once by its aliases in list order: at any point of the loop the calls made
\* are a prefix of that sequence, and at its end they are all of it.
C4_Order ==
    (run >= 1 /\ ~args.check) =>
        LET names == NamesInOrder(frame.data)
        IN /\ Len(calls) <= Len(names)
           /\ CalledNames = SubSeq(names, 1, Len(calls))
           /\ pc = "idle" => Len(calls) = Len(names)

\* a finished run over two entries, the first with two different aliases
C4_Witness ==
    /\ pc = "idle"
    /\ run >= 1
    /\ Len(frame.data) >= 2
    /\ Len(frame.data[1].aliases) >= 2
    /\ frame.data[1].aliases[1] # frame.data[1].aliases[2]
    /\ Len(calls) >= 4

\* the catalog entry and the name a call was made for
EntryOf(call) == frame.data[call.i]
NameOf(call) ==
    IF call.j = 0 THEN EntryOf(call).name ELSE EntryOf(call).aliases[call.j]
Black == <<"#","0","0","0","0","0","0">>
EntryColor(e) == IF e.color = None THEN Black ELSE e.color[1]
LastCall == calls[Len(calls)]

\* C5 as stated: an alias icon is rendered with the color of its entry and
\* with the font size of the primary icon.
C5_AliasHasPrimarySize ==
    (calls # << >> /\ LastCall.wrote /\ LastCall.j >= 1) =>
        LET e == EntryOf(LastCall)
            primarySize == IF e.font_size # None THEN e.font_size[1]
                           ELSE TableSize(Len(e.name))
        IN files[PathOf(LastCall)] =
               Format(frame.template_svg, EntryColor(e), NameOf(LastCall),
                      primarySize)

\* C5, amended: the primary icon and every alias icon of an entry are rendered
\* with the entry's color (#000000 when absent), with their own name as label
\* and file name, and with the entry's font_size when it has one; when it has
\* none, each with the table's size for the length of its own name.
C5_AliasRendering ==
    (calls # << >> /\ LastCall.wrote) =>
        LET e == EntryOf(LastCall)
            name == NameOf(LastCall)
            size == IF e.font_size # None THEN e.font_size[1]
                    ELSE TableSize(Len(name))
        IN /\ LastCall.extension = name
           /\ files[frame.output_dir \o <<"/">> \o Lower(name) \o DotSvg] =
                  Format(frame.template_svg, EntryColor(e), name, size)

\* the alias TS of TYPESCRIPT, which has no font_size, rendered with size 10
C5_Witness ==
    /\ calls # << >>
    /\ LastCall.wrote
    /\ LastCall.j >= 1
    /\ EntryOf(LastCall).font_size = None
    /\ Len(NameOf(LastCall)) = 2
    /\ Len(EntryOf(LastCall).name) = 10
    /\ files[PathOf(LastCall)] =
           Format(frame.template_svg, Blue, TS, 10)

\* the calls of the run that name the file at path, by their place in the run
CallsFor(path) == { k \in DOMAIN calls : PathOf(calls[k]) = path }
First(S) == CHOOSE k \in S : \A m \in S : k <= m
Last(S) == CHOOSE k \in S : \A m \in S : m <= k

\* C10: after one generation run into an empty output directory there is one
\* file per distinct lowercased name of the catalog; without --force it holds
\* what the first name with that lowercase form renders, with --force what the
\* last one renders.
C10_Collisions ==
    (pc = "idle" /\ run = 1 /\ ~args.check) =>
        LET names == NamesInOrder(JsonLoad(catalog))
            lowers == { Lower(names[k]) : k \in DOMAIN names }
        IN /\ DOMAIN files =
                  { args.output_dir \o <<"/">> \o l \o DotSvg : l \in lowers }
           /\ Cardinality(DOMAIN files) = Cardinality(lowers)
           /\ \A path \in DOMAIN files :
                 LET winner == IF args.force THEN Last(CallsFor(path))
                               ELSE First(CallsFor(path))
                 IN files[path] = Rendered(calls[winner])

\* a forced run in which a later name overwrote the file of an earlier one
C10_Witness ==
    /\ pc = "idle"
    /\ run = 1
    /\ args.force
    /\ \E path \in DOMAIN files :
          /\ Cardinality(CallsFor(path)) >= 2
          /\ Rendered(calls[First(CallsFor(path))])
                 # Rendered(calls[Last(CallsFor(path))])

\* the catalog the running invocation loaded
Loaded == JsonLoad(snap[1].catalog)

RECURSIVE MaxPlaces(_)
MaxPlaces(data) ==
    IF data = << >> THEN 0
    ELSE LET n == Len(Head(data).aliases)
             m == MaxPlaces(Tail(data))
         IN IF n >= m THEN n ELSE m

\* the places of the aliases in a catalog: <<i, j>> is the j-th alias of entry i
Places(data) ==
    { <<i, j>> \in (DOMAIN data) \X (1..MaxPlaces(data)) :
         data[i].kind = "dict" /\ j <= Len(data[i].aliases) }
AliasAt(data, place) == data[place[1]].aliases[place[2]]
AliasesOf(data) == { AliasAt(data, pl) : pl \in Places(data) }

\* the first entry, in catalog order, whose alias list holds the alias
FirstOwner(data, alias) ==
    LET holders == { pl[1] : pl \in { q \in Places(data) : AliasAt(data, q) = alias } }
    IN CHOOSE i \in holders : \A m \in holders : i <= m

\* the scan of check_aliases is over
ScanOver == run >= 1 /\ args.check /\ pc # "scan"

\* C6: after the scan every alias is registered to the first entry, in catalog
\* order, whose list holds it; every occurrence of it in a later entry's list
\* has a duplicate warning naming the alias, that entry and the first owner,
\* and no duplicate warning names another owner; every alias occurrence equal
\* to a primary name has a collision warning and is registered as an alias.
C6_Scan ==
    ScanOver =>
        LET data == Loaded
        IN /\ chk.all_aliases = AliasesOf(data)
           /\ DOMAIN chk.aliases_map = AliasesOf(data)
           /\ \A a \in AliasesOf(data) :
                 chk.aliases_map[a] = data[FirstOwner(data, a)].name
           /\ \A pl \in Places(data) :
                 pl[1] > FirstOwner(data, AliasAt(data, pl)) =>
                    \E k \in DOMAIN out :
                       out[k] = [warning |-> "alias",
                                 alias |-> AliasAt(data, pl),
                                 extension |-> data[pl[1]].name,
                                 owner |-> data[FirstOwner(data, AliasAt(data, pl))].name]
           /\ \A k \in DOMAIN out :
                 out[k].warning = "alias" =>
                    out[k].owner = data[FirstOwner(data, out[k].alias)].name
           /\ \A pl \in Places(data) :
                 AliasAt(data, pl) \in Keys(data) =>
                    /\ AliasAt(data, pl) \in chk.all_aliases
                    /\ \E k \in DOMAIN out :
                          /\ out[k].warning = "main extension"
                          /\ out[k].alias = AliasAt(data, pl)
                          /\ out[k].extension = data[pl[1]].name

\* an alias of two entries, warned about with its first owner, and an alias
\* that is a primary name, warned about too
C6_Witness ==
    /\ ScanOver
    /\ \E k \in DOMAIN out :
          /\ out[k].warning = "alias"
          /\ out[k].owner # out[k].extension
    /\ \E k \in DOMAIN out : out[k].warning = "main extension"

\* the primary names of the loaded catalog that also occur as an alias
Offending == Keys(Loaded) \cap AliasesOf(Loaded)

\* the answers that are a yes: "yes" in any case, spaces around it ignored
YesAnswers == { <<"y","e","s">>, <<" ","Y","e","s"," ">>, <<"Y","E","S">> }

\* s is data without the entries named in removed, the rest as they were and
\* in their order
IsRemoval(s, data, removed) ==
    LET keep == { i \in DOMAIN data : data[i].name \notin removed }
    IN /\ Len(s) = Cardinality(keep)
       /\ \A i \in keep : s[Cardinality({ m \in keep : m <= i })] = data[i]

\* C7: check_aliases writes the catalog file only when some primary name also
\* occurs as an alias and the operator answers yes, and then once, the catalog
\* without exactly those primary entries, every other entry as it was and in
\* the same order; otherwise the file stays as it was, and without such a
\* name nothing is asked.
C7_Rewrite ==
    (run >= 1 /\ args.check) =>
        /\ Len(saved) <= 1
        /\ Len(prompts) <= 1
        /\ saved # << >> =>
              /\ Offending # {}
              /\ prompts # << >> /\ prompts[1] \in YesAnswers
              /\ IsRemoval(saved[1], Loaded, Offending)
              /\ catalog = saved[1]
        /\ saved = << >> => catalog = snap[1].catalog
        /\ Offending = {} => prompts = << >>
        /\ (prompts # << >> /\ prompts[1] \in YesAnswers) => saved # << >>
        /\ (pc = "idle" /\ Offending # {}) => prompts # << >>

\* a rewrite that removed one entry and kept another
C7_Witness ==
    /\ run >= 1 /\ args.check
    /\ saved # << >>
    /\ Len(saved[1]) >= 1
    /\ Len(saved[1]) < Len(Loaded)

NoAliasIsPrimary(data) == AliasesOf(data) \cap Keys(data) = {}
NoAliasTwice(data) ==
    \A p, q \in Places(data) : p # q => AliasAt(data, p) # AliasAt(data, q)

\* check_aliases has run to its end with the removal confirmed
RemovalConfirmed ==
    /\ pc = "idle"
    /\ run >= 1 /\ args.check
    /\ prompts # << >> /\ prompts[1] \in YesAnswers

\* C8 as stated: after check_aliases has run with the removal confirmed, no
\* alias of the catalog is a primary name and no alias occurs twice.
C8_NoDuplicateLeft ==
    RemovalConfirmed =>
        /\ NoAliasIsPrimary(JsonLoad(catalog))
        /\ NoAliasTwice(JsonLoad(catalog))

\* C8, amended: after check_aliases has run with the removal confirmed, no
\* alias of the catalog is a primary name (an alias that occurs twice is
\* warned about and stays).
C8_NoAliasIsPrimary ==
    RemovalConfirmed => NoAliasIsPrimary(JsonLoad(catalog))

\* a confirmed removal that left an alias occurring twice
C8_Witness ==
    /\ RemovalConfirmed
    /\ saved # << >>
    /\ catalog # << >>
    /\ ~NoAliasTwice(JsonLoad(catalog))

\* the template files of the templates directory: template_*.svg
Matching ==
    IF tdir = None THEN {}
    ELSE { f \in tdir[1] :
             /\ Len(f) >= Len(PrefixTemplate) + Len(DotSvg)
             /\ SubSeq(f, 1, Len(PrefixTemplate)) = PrefixTemplate
             /\ SubSeq(f, Len(f) - Len(DotSvg) + 1, Len(f)) = DotSvg }

\* a template file's name with the template_ prefix and the .svg suffix stripped
Stripped(f) == SubSeq(f, Len(PrefixTemplate) + 1, Len(f) - Len(DotSvg))

\* generate_all_templates has run to its end
BatchOver == pc = "idle" /\ run >= 1 /\ ~args.check /\ args.template = None

\* C9: without a templates directory, or with none of its files named
\* template_*.svg, generate_all_templates creates no directory and runs
\* generate_icons_from_json never; otherwise it runs it once per template
\* file, into icons/<the file's name without template_ and .svg>, and no two
\* template files share an output directory.
C9_Batch ==
    BatchOver =>
        IF Matching = {}
        THEN procs = << >> /\ dirs = snap[1].dirs /\ calls = << >>
        ELSE /\ Len(procs) = Cardinality(Matching)
             /\ { procs[k].template_file : k \in DOMAIN procs } = Matching
             /\ \A k \in DOMAIN procs :
                   procs[k].output_dir =
                       Icons \o <<"/">> \o Stripped(procs[k].template_file)
             /\ \A k, m \in DOMAIN procs :
                   k # m => procs[k].output_dir # procs[m].output_dir

====
